---- MODULE Spec2Model ----
(***************************************************************************)
(* Model of packages/opentelemetry-propagator-jaeger/src/JaegerPropagator.ts *)
(*                                                                         *)
(* A JavaScript string is a sequence of UTF-16 code units (naturals).      *)
(* An operation that can throw returns a record with a `thrown` field.     *)
(***************************************************************************)
EXTENDS Integers, Sequences, FiniteSets, TLC

(***************************************************************************)
(* Characters and string primitives                                        *)
(***************************************************************************)

\* The code units the source names in its literals and regular expressions.
CH == [colon |-> 58, percent |-> 37, zero |-> 48, dash |-> 45]

\* '0'..'9'
IsDecDigit(c) == c \in 48..57

\* [0-9a-f] under the i flag
IsHexDigit(c) == c \in 48..57 \/ c \in 65..70 \/ c \in 97..102

HexVal(c) == IF c \in 48..57 THEN c - 48 ELSE IF c \in 65..70 THEN c - 55 ELSE c - 87

LowerHexDigit(n) == IF n < 10 THEN 48 + n ELSE 87 + n

UpperHexDigit(n) == IF n < 10 THEN 48 + n ELSE 55 + n

\* Number.prototype.toString(16) of a non-negative integer
RECURSIVE ToString16(_)
ToString16(n) ==
    IF n < 16 THEN <<LowerHexDigit(n)>>
    ELSE ToString16(n \div 16) \o <<LowerHexDigit(n % 16)>>

\* a padding on the right, as padEnd does
RECURSIVE PadEnd(_, _, _)
PadEnd(s, targetLength, padChar) ==
    IF Len(s) >= targetLength THEN s
    ELSE PadEnd(s \o <<padChar>>, targetLength, padChar)

\* String.prototype.padStart(targetLength, padChar)
RECURSIVE PadStart(_, _, _)
PadStart(s, targetLength, padChar) ==
    IF Len(s) >= targetLength THEN s
    ELSE PadStart(<<padChar>> \o s, targetLength, padChar)

\* String.prototype.split(sep) for a one-character separator: the fields
RECURSIVE SplitFrom(_, _, _, _)
SplitFrom(s, sep, k, cur) ==
    IF k > Len(s) THEN <<cur>>
    ELSE IF s[k] = sep THEN <<cur>> \o SplitFrom(s, sep, k + 1, <<>>)
    ELSE SplitFrom(s, sep, k + 1, Append(cur, s[k]))

Split(s, sep) == SplitFrom(s, sep, 1, <<>>)

\* String.prototype.substring(start), start counted from 0
Substring(s, start) == IF start >= Len(s) THEN <<>> ELSE SubSeq(s, start + 1, Len(s))

\* Canonicalize of a non-unicode /i regular expression, on ASCII letters
Canonicalize(c) == IF c \in 97..122 THEN c - 32 ELSE c

(***************************************************************************)
(* encodeURIComponent / decodeURIComponent (ECMAScript Encode and Decode)  *)
(***************************************************************************)

URIError == [thrown |-> TRUE, str |-> <<>>]

Returned(s) == [thrown |-> FALSE, str |-> s]

\* uriUnreserved: letters, digits and  - _ . ! ~ * ' ( )
IsUriUnreserved(c) ==
    \/ c \in 48..57 \/ c \in 65..90 \/ c \in 97..122
    \/ c \in {45, 95, 46, 33, 126, 42, 39, 40, 41}

PercentOctet(b) == <<CH.percent, UpperHexDigit(b \div 16), UpperHexDigit(b % 16)>>

\* the UTF-8 octets of a code point
Utf8Octets(v) ==
    IF v < 128 THEN <<v>>
    ELSE IF v < 2048 THEN <<192 + (v \div 64), 128 + (v % 64)>>
    ELSE IF v < 65536 THEN
        <<224 + (v \div 4096), 128 + ((v \div 64) % 64), 128 + (v % 64)>>
    ELSE <<240 + (v \div 262144), 128 + ((v \div 4096) % 64),
           128 + ((v \div 64) % 64), 128 + (v % 64)>>

RECURSIVE PercentOctets(_)
PercentOctets(octets) ==
    IF octets = <<>> THEN <<>>
    ELSE PercentOctet(Head(octets)) \o PercentOctets(Tail(octets))

IsHighSurrogate(c) == c \in 55296..56319

IsLowSurrogate(c) == c \in 56320..57343

RECURSIVE EncodeFrom(_, _, _)
EncodeFrom(s, k, acc) ==
    IF k > Len(s) THEN Returned(acc)
    ELSE IF IsUriUnreserved(s[k]) THEN EncodeFrom(s, k + 1, Append(acc, s[k]))
    ELSE IF IsLowSurrogate(s[k]) THEN URIError
    ELSE IF ~IsHighSurrogate(s[k])
         THEN EncodeFrom(s, k + 1, acc \o PercentOctets(Utf8Octets(s[k])))
    ELSE IF k + 1 > Len(s) THEN URIError
    ELSE IF ~IsLowSurrogate(s[k + 1]) THEN URIError
    ELSE EncodeFrom(s, k + 2, acc \o PercentOctets(Utf8Octets(
             (s[k] - 55296) * 1024 + (s[k + 1] - 56320) + 65536)))

EncodeURIComponent(s) == EncodeFrom(s, 1, <<>>)

\* the number of leading 1 bits of an octet >= 128 (5 stands for 5 or more)
LeadingOnes(b) ==
    IF b < 192 THEN 1 ELSE IF b < 224 THEN 2 ELSE IF b < 240 THEN 3
    ELSE IF b < 248 THEN 4 ELSE 5

\* s[k..k+2] is '%' followed by two hex digits
IsEscapeAt(s, k) ==
    /\ k + 2 <= Len(s)
    /\ s[k] = CH.percent
    /\ IsHexDigit(s[k + 1])
    /\ IsHexDigit(s[k + 2])

OctetAt(s, k) == 16 * HexVal(s[k + 1]) + HexVal(s[k + 2])

\* the n - 1 escapes after the leading one at k are continuation octets 10xxxxxx
ContinuationsOk(s, k, n) ==
    \A j \in 1..(n - 1) :
        /\ IsEscapeAt(s, k + 3 * j)
        /\ OctetAt(s, k + 3 * j) \in 128..191

\* the code point of the n-octet sequence starting at k
RECURSIVE ContinuationBits(_, _, _, _)
ContinuationBits(s, k, j, v) ==
    IF j = 0 THEN v
    ELSE ContinuationBits(s, k + 3, j - 1, v * 64 + (OctetAt(s, k + 3) - 128))

CodePointAt(s, k, n) ==
    LET lead == OctetAt(s, k)
        bits == IF n = 2 THEN lead - 192 ELSE IF n = 3 THEN lead - 224 ELSE lead - 240
    IN  ContinuationBits(s, k, n - 1, bits)

\* a valid UTF-8 encoding: shortest form, no surrogate, at most U+10FFFF
IsValidCodePoint(v, n) ==
    IF n = 2 THEN v >= 128
    ELSE IF n = 3 THEN v >= 2048 /\ ~(v \in 55296..57343)
    ELSE v \in 65536..1114111

\* the UTF-16 code units of a code point
Utf16Units(v) ==
    IF v < 65536 THEN <<v>>
    ELSE <<55296 + ((v - 65536) \div 1024), 56320 + ((v - 65536) % 1024)>>

RECURSIVE DecodeFrom(_, _, _)
DecodeFrom(s, k, acc) ==
    IF k > Len(s) THEN Returned(acc)
    ELSE IF s[k] # CH.percent THEN DecodeFrom(s, k + 1, Append(acc, s[k]))
    ELSE IF ~IsEscapeAt(s, k) THEN URIError
    ELSE IF OctetAt(s, k) < 128 THEN DecodeFrom(s, k + 3, Append(acc, OctetAt(s, k)))
    ELSE LET n == LeadingOnes(OctetAt(s, k)) IN
         IF n = 1 \/ n > 4 THEN URIError
         ELSE IF ~ContinuationsOk(s, k, n) THEN URIError
         ELSE IF ~IsValidCodePoint(CodePointAt(s, k, n), n) THEN URIError
         ELSE DecodeFrom(s, k + 3 * n, acc \o Utf16Units(CodePointAt(s, k, n)))

DecodeURIComponent(s) == DecodeFrom(s, 1, <<>>)

(***************************************************************************)
(* Collaborators: SpanContext, Baggage, Context, carrier, getter, setter   *)
(***************************************************************************)

\* TraceFlags.NONE of @opentelemetry/api
TraceFlagsNONE == 0

\* "uber-trace-id"
UBER_TRACE_ID_HEADER == <<117, 98, 101, 114, 45, 116, 114, 97, 99, 101, 45, 105, 100>>

\* "uberctx"
UBER_BAGGAGE_HEADER_PREFIX == <<117, 98, 101, 114, 99, 116, 120>>

\* the literal part "uberctx-" of /^uberctx-(.+)/i
UBER_BAGGAGE_HEADER_REGEX_LITERAL == <<117, 98, 101, 114, 99, 116, 120, 45>>

\* what getSpanContext returns for a context without one (never read as a span)
NoSpanContext == [traceId |-> <<>>, spanId |-> <<>>, isRemote |-> FALSE, traceFlags |-> 0]

\* A context is an immutable object: id tells two objects apart, and every
\* setValue (setSpanContext, setBaggage) makes a new object.
ROOT_CONTEXT ==
    [id |-> 0, hasSpan |-> FALSE, span |-> NoSpanContext,
     hasBaggage |-> FALSE, baggage |-> <<>>, suppressed |-> FALSE]

setSpanContext(context, spanContext) ==
    [context EXCEPT !.id = @ + 1, !.hasSpan = TRUE, !.span = spanContext]

setBaggage(context, baggage) ==
    [context EXCEPT !.id = @ + 1, !.hasBaggage = TRUE, !.baggage = baggage]

\* A baggage is an ordered mapping: a sequence of [key, value] with unique keys.
createBaggage == <<>>

HasEntry(baggage, key) == \E i \in 1..Len(baggage) : baggage[i].key = key

\* Baggage.setEntry: a new baggage with the entry set (Map.set keeps the place
\* of a key it already holds and appends a new one)
setEntry(baggage, key, value) ==
    IF HasEntry(baggage, key)
    THEN [i \in 1..Len(baggage) |->
            IF baggage[i].key = key THEN [key |-> key, value |-> value] ELSE baggage[i]]
    ELSE Append(baggage, [key |-> key, value |-> value])

\* What a getter returns: undefined, a string, or an array of strings.
Undefined == [kind |-> "undefined", str |-> <<>>, arr |-> <<>>]

StringValue(s) == [kind |-> "string", str |-> s, arr |-> <<>>]

ArrayValue(a) == [kind |-> "array", str |-> <<>>, arr |-> a]

\* A carrier is an object with string keys: a sequence of [key, value] in the
\* order of its keys. getter.get(carrier, key)
GetterGet(carrier, key) ==
    IF \E i \in 1..Len(carrier) : carrier[i].key = key
    THEN carrier[CHOOSE i \in 1..Len(carrier) : carrier[i].key = key].value
    ELSE Undefined

\* getter.keys(carrier)
GetterKeys(carrier) == [i \in 1..Len(carrier) |-> carrier[i].key]

\* setter.set(carrier, key, value): carrier[key] = value
SetterSet(carrier, key, value) ==
    IF \E i \in 1..Len(carrier) : carrier[i].key = key
    THEN [i \in 1..Len(carrier) |->
            IF carrier[i].key = key THEN [key |-> key, value |-> StringValue(value)]
            ELSE carrier[i]]
    ELSE Append(carrier, [key |-> key, value |-> StringValue(value)])

\* the carrier after a sequence of setter calls
RECURSIVE ApplyCalls(_, _)
ApplyCalls(carrier, calls) ==
    IF calls = <<>> THEN carrier
    ELSE ApplyCalls(SetterSet(carrier, Head(calls).key, Head(calls).value), Tail(calls))

\* Array.isArray(v) ? v[0] : v
FirstOrValue(v) ==
    IF v.kind = "array"
    THEN (IF Len(v.arr) = 0 THEN Undefined ELSE StringValue(v.arr[1]))
    ELSE v

(***************************************************************************)
(* JaegerPropagator                                                        *)
(***************************************************************************)

\* constructor: customTraceHeader || UBER_TRACE_ID_HEADER (the empty string
\* stands for an omitted argument: both are falsy)
Constructor(customTraceHeader) ==
    IF customTraceHeader = <<>> THEN UBER_TRACE_ID_HEADER ELSE customTraceHeader

\* variant of WritesTraceHeader that does not ask isTracingSuppressed
WritesTraceHeaderUnsuppressed(context) == context.hasSpan

\* spanContext && isTracingSuppressed(context) === false
WritesTraceHeader(context) == context.hasSpan /\ context.suppressed = FALSE

\* `0${(spanContext.traceFlags || TraceFlags.NONE).toString(16)}`
TraceFlagsField(spanContext) ==
    <<CH.zero>> \o
    ToString16(IF spanContext.traceFlags # 0 THEN spanContext.traceFlags ELSE TraceFlagsNONE)

\* `${spanContext.traceId}:${spanContext.spanId}:0:${traceFlags}`
TraceHeaderValue(spanContext) ==
    spanContext.traceId \o <<CH.colon>> \o spanContext.spanId \o <<CH.colon>>
    \o <<CH.zero>> \o <<CH.colon>> \o TraceFlagsField(spanContext)

\* `${UBER_BAGGAGE_HEADER_PREFIX}-${key}`
BaggageHeaderName(key) == UBER_BAGGAGE_HEADER_PREFIX \o <<CH.dash>> \o key

\* the loop over baggage.getAllEntries(): one setter call per entry, until
\* encodeURIComponent throws
RECURSIVE BaggageCalls(_, _, _)
BaggageCalls(entries, k, calls) ==
    IF k > Len(entries) THEN [thrown |-> FALSE, calls |-> calls]
    ELSE IF EncodeURIComponent(entries[k].value).thrown
         THEN [thrown |-> TRUE, calls |-> calls]
    ELSE BaggageCalls(entries, k + 1,
             Append(calls, [key |-> BaggageHeaderName(entries[k].key),
                            value |-> EncodeURIComponent(entries[k].value).str]))

\* inject: the setter calls it makes, in order, and whether it threw
JaegerInject(traceHeader, context) ==
    LET first == IF WritesTraceHeader(context)
                 THEN <<[key |-> traceHeader, value |-> TraceHeaderValue(context.span)]>>
                 ELSE <<>>
    IN  IF context.hasBaggage THEN BaggageCalls(context.baggage, 1, first)
        ELSE [thrown |-> FALSE, calls |-> first]

\* parseInt(s) for a string of hex digits: the leading decimal digits, or NaN
RECURSIVE DecimalPrefix(_, _, _)
DecimalPrefix(s, k, v) ==
    IF k > Len(s) \/ ~IsDecDigit(s[k]) THEN v
    ELSE DecimalPrefix(s, k + 1, 10 * v + (s[k] - 48))

ParseInt(s) ==
    IF Len(s) = 0 \/ ~IsDecDigit(s[1]) THEN [nan |-> TRUE, val |-> 0]
    ELSE [nan |-> FALSE, val |-> DecimalPrefix(s, 1, 0)]

\* x & 1 (ToInt32 of NaN is 0)
BitAnd1(x) == IF x.nan THEN 0 ELSE x.val % 2

\* flags.match(/^[0-9a-f]{2}$/i)
MatchesFlagsRegex(flags) ==
    /\ Len(flags) = 2
    /\ IsHexDigit(flags[1])
    /\ IsHexDigit(flags[2])

\* variant of DecodeTraceFlags that falls back to 0
DecodeTraceFlagsUnsampled(flags) ==
    IF MatchesFlagsRegex(flags) THEN BitAnd1(ParseInt(flags)) ELSE 0

\* flags.match(/^[0-9a-f]{2}$/i) ? parseInt(flags) & 1 : 1
DecodeTraceFlags(flags) ==
    IF MatchesFlagsRegex(flags) THEN BitAnd1(ParseInt(flags)) ELSE 1

\* variant of PadTraceId that pads on the right
PadTraceIdRight(traceId) == PadEnd(traceId, 32, CH.zero)

\* _traceId.padStart(32, '0')
PadTraceId(traceId) == PadStart(traceId, 32, CH.zero)

\* deserializeSpanContext: throws, returns null, or returns a span context
deserializeSpanContext(serializedString) ==
    LET decoded == DecodeURIComponent(serializedString)
        headers == Split(decoded.str, CH.colon)
    IN  IF decoded.thrown
        THEN [thrown |-> TRUE, null |-> TRUE, span |-> NoSpanContext]
        ELSE IF Len(headers) # 4
        THEN [thrown |-> FALSE, null |-> TRUE, span |-> NoSpanContext]
        ELSE [thrown |-> FALSE, null |-> FALSE,
              span |-> [traceId |-> PadTraceId(headers[1]), spanId |-> headers[2],
                        isRemote |-> TRUE, traceFlags |-> DecodeTraceFlags(headers[4])]]

\* a line terminator, which `.` does not match
IsLineTerminator(c) == c \in {10, 13, 8232, 8233}

\* UBER_BAGGAGE_HEADER_REGEX.test(key), /^uberctx-(.+)/i
MatchesBaggageRegex(key) ==
    /\ Len(key) >= Len(UBER_BAGGAGE_HEADER_REGEX_LITERAL) + 1
    /\ \A i \in 1..Len(UBER_BAGGAGE_HEADER_REGEX_LITERAL) :
          Canonicalize(key[i]) = Canonicalize(UBER_BAGGAGE_HEADER_REGEX_LITERAL[i])
    /\ ~IsLineTerminator(key[Len(UBER_BAGGAGE_HEADER_REGEX_LITERAL) + 1])

\* variant of BaggageKey that keeps the '-' after the prefix
BaggageKeyOffByOne(key) == Substring(key, Len(UBER_BAGGAGE_HEADER_PREFIX))

\* key.substring(UBER_BAGGAGE_HEADER_PREFIX.length + 1)
BaggageKey(key) == Substring(key, Len(UBER_BAGGAGE_HEADER_PREFIX) + 1)

\* getter.keys(carrier).filter(...).map(...): the {key, value} of every
\* baggage header, in the order of the carrier's keys
RECURSIVE BaggageValuesFrom(_, _)
BaggageValuesFrom(carrier, k) ==
    IF k > Len(carrier) THEN <<>>
    ELSE IF MatchesBaggageRegex(GetterKeys(carrier)[k])
         THEN <<[key |-> BaggageKey(GetterKeys(carrier)[k]),
                 value |-> FirstOrValue(GetterGet(carrier, GetterKeys(carrier)[k]))]>>
              \o BaggageValuesFrom(carrier, k + 1)
    ELSE BaggageValuesFrom(carrier, k + 1)

BaggageValues(carrier) == BaggageValuesFrom(carrier, 1)

\* the loop over baggageValues: skips an undefined value, sets the decoded
\* value of the others, until decodeURIComponent throws
RECURSIVE MergeBaggage(_, _, _)
MergeBaggage(currentBaggage, baggageValues, k) ==
    IF k > Len(baggageValues) THEN [thrown |-> FALSE, baggage |-> currentBaggage]
    ELSE IF baggageValues[k].value.kind = "undefined"
         THEN MergeBaggage(currentBaggage, baggageValues, k + 1)
    ELSE IF DecodeURIComponent(baggageValues[k].value.str).thrown
         THEN [thrown |-> TRUE, baggage |-> currentBaggage]
    ELSE MergeBaggage(
             setEntry(currentBaggage, baggageValues[k].key,
                      DecodeURIComponent(baggageValues[k].value.str).str),
             baggageValues, k + 1)

\* variant of ReturnsEarly that always goes on to setBaggage
NeverReturnsEarly(baggageValues) == FALSE

\* if (baggageValues.length === 0) return newContext
ReturnsEarly(baggageValues) == Len(baggageValues) = 0

\* the local spanContext of extract when deserializeSpanContext is not called
NotDeserialized == [thrown |-> FALSE, null |-> TRUE, span |-> NoSpanContext]

\* extract: whether it threw, the context it returned, and what its call of
\* deserializeSpanContext returned
JaegerExtract(traceHeader, context, carrier) ==
    LET uberTraceId == FirstOrValue(GetterGet(carrier, traceHeader))
        baggageValues == BaggageValues(carrier)
        spanContext == IF uberTraceId.kind = "string"
                       THEN deserializeSpanContext(uberTraceId.str)
                       ELSE NotDeserialized
        newContext == IF ~spanContext.null
                      THEN setSpanContext(context, spanContext.span)
                      ELSE context
        merged == MergeBaggage(IF context.hasBaggage THEN context.baggage ELSE createBaggage,
                               baggageValues, 1)
    IN  IF spanContext.thrown
        THEN [thrown |-> TRUE, ctx |-> context, spanContext |-> spanContext]
        ELSE IF ReturnsEarly(baggageValues)
        THEN [thrown |-> FALSE, ctx |-> newContext, spanContext |-> spanContext]
        ELSE IF merged.thrown
        THEN [thrown |-> TRUE, ctx |-> context, spanContext |-> spanContext]
        ELSE [thrown |-> FALSE, ctx |-> setBaggage(newContext, merged.baggage),
              spanContext |-> spanContext]

\* fields()
JaegerFields(traceHeader) == <<traceHeader>>

(***************************************************************************)
(* Inputs                                                                  *)
(***************************************************************************)

MaxTraceIdLen == 33

MaxTraceFlags == 255

MaxValueLen == 2

MaxWireLen == 5

\* all strings over an alphabet of at most n code units
StringsUpTo(alphabet, n) == UNION {[1..m -> alphabet] : m \in 0..n}

Repeat(c, n) == [i \in 1..n |-> c]

\* "", "x-uber-trace-id": the constructor's argument
CustomTraceHeaders == {<<>>, <<120, 45>> \o UBER_TRACE_ID_HEADER}

\* trace ids "", "a", "aa", ... and "0a", "a:b"; span ids "b", "0b"
TraceIds == {Repeat(97, n) : n \in 0..MaxTraceIdLen} \cup {<<48, 97>>, <<97, 58, 98>>}

SpanIds == {<<98>>, <<48, 98>>}

SpanContexts ==
    {[traceId |-> t, spanId |-> s, isRemote |-> r, traceFlags |-> f] :
        t \in TraceIds, s \in SpanIds, r \in BOOLEAN, f \in 0..1}
    \cup
    {[traceId |-> t, spanId |-> <<98>>, isRemote |-> FALSE, traceFlags |-> f] :
        t \in {Repeat(97, 32), Repeat(97, 16)}, f \in 0..MaxTraceFlags}

\* baggage keys "", "k", "K", "a-b", "\nk"
BaggageKeys == {<<>>, <<107>>, <<75>>, <<97, 45, 98>>, <<10, 107>>}

\* baggage values: well-formed UTF-16 text over  v ' ' % e-acute euro-sign,
\* and U+1F600 (a surrogate pair), and "value 2/$"
BaggageTexts ==
    StringsUpTo({118, 32, 37, 233, 8364}, MaxValueLen)
    \cup {<<55357, 56832>>, <<118, 97, 108, 117, 101, 32, 50, 47, 36>>}

Baggages ==
    {<<>>}
    \cup {<<[key |-> k, value |-> v]>> : k \in BaggageKeys, v \in BaggageTexts}
    \cup UNION {{<<[key |-> k1, value |-> v1], [key |-> k2, value |-> v2]>> :
                    k2 \in BaggageKeys \ {k1},
                    v1 \in {<<118>>, <<32, 37>>}, v2 \in {<<118>>, <<>>}} :
                 k1 \in BaggageKeys}

ContextOf(hasSpan, span, hasBaggage, baggage, suppressed) ==
    [id |-> 0, hasSpan |-> hasSpan, span |-> span,
     hasBaggage |-> hasBaggage, baggage |-> baggage, suppressed |-> suppressed]

\* the contexts inject is called with
InjectContexts ==
    {ContextOf(TRUE, sc, FALSE, <<>>, sup) : sc \in SpanContexts, sup \in BOOLEAN}
    \cup
    {ContextOf(hasSpan, [traceId |-> Repeat(97, 32), spanId |-> <<98>>,
                         isRemote |-> FALSE, traceFlags |-> 1],
               TRUE, b, sup) :
        hasSpan \in BOOLEAN, b \in Baggages, sup \in BOOLEAN}
    \cup {ROOT_CONTEXT}

\* the contexts extract is called with: the root context, one with baggage
\* k=o, z=o, and one with a span context and baggage
ExtractContexts ==
    {ROOT_CONTEXT,
     ContextOf(FALSE, NoSpanContext, TRUE,
               <<[key |-> <<107>>, value |-> <<111>>], [key |-> <<122>>, value |-> <<111>>]>>,
               FALSE),
     ContextOf(TRUE, [traceId |-> Repeat(99, 32), spanId |-> <<100>>,
                      isRemote |-> FALSE, traceFlags |-> 0],
               TRUE, <<>>, TRUE)}

\* header values as they arrive: every string over  : % 0 3 a z
WireStrings == StringsUpTo({58, 37, 48, 51, 97, 122}, MaxWireLen)

\* baggage header names: uberctx-k, UBERCTX-k, Uberctx-a-b, uberctx-, uberctxk,
\* uberctx-<LF>k, x
WireBaggageNames ==
    {BaggageHeaderName(<<107>>),
     <<85, 66, 69, 82, 67, 84, 88, 45, 107>>,
     <<85, 98, 101, 114, 99, 116, 120, 45, 97, 45, 98>>,
     BaggageHeaderName(<<>>),
     <<117, 98, 101, 114, 99, 116, 120, 107>>,
     BaggageHeaderName(<<10, 107>>),
     <<120>>}

\* baggage header values: undefined, "", "v", "%", "a%20b", "%C3%A9", [],
\* ["x", "y"]
WireBaggageValues ==
    {Undefined, StringValue(<<>>), StringValue(<<118>>), StringValue(<<37>>),
     StringValue(<<97, 37, 50, 48, 98>>), StringValue(<<37, 67, 51, 37, 65, 57>>),
     ArrayValue(<<>>), ArrayValue(<<<<120>>, <<121>>>>)}

\* trace header values of the carriers that vary the baggage headers:
\* undefined, "a:b:0:01", "a:b:0", "%", ["a:b:0:00", "x"], []
WireTraceValues ==
    {Undefined,
     StringValue(<<97, 58, 98, 58, 48, 58, 48, 49>>),
     StringValue(<<97, 58, 98, 58, 48>>),
     StringValue(<<37>>),
     ArrayValue(<<<<97, 58, 98, 58, 48, 58, 48, 48>>, <<120>>>>),
     ArrayValue(<<>>)}

WithTrace(traceHeader, value, rest) ==
    IF value.kind = "undefined" THEN rest
    ELSE <<[key |-> traceHeader, value |-> value]>> \o rest

\* the carriers extract is called with, for a propagator reading traceHeader
WireCarriers(traceHeader) ==
    {WithTrace(traceHeader, StringValue(s), rest) :
        s \in WireStrings,
        rest \in {<<>>, <<[key |-> BaggageHeaderName(<<107>>), value |-> StringValue(<<118>>)]>>}}
    \cup
    {WithTrace(traceHeader, t, <<[key |-> n, value |-> v]>>) :
        t \in WireTraceValues, n \in WireBaggageNames, v \in WireBaggageValues}
    \cup
    UNION {{<<[key |-> n1, value |-> v1]>>
               \o WithTrace(traceHeader, t, <<[key |-> n2, value |-> v2]>>) :
              t \in {Undefined, StringValue(<<97, 58, 98, 58, 48, 58, 48, 49>>)},
              n2 \in WireBaggageNames \ {n1},
              v1 \in WireBaggageValues, v2 \in WireBaggageValues} :
           n1 \in WireBaggageNames}
    \cup
    {<<[key |-> UBER_TRACE_ID_HEADER \o <<50>>, value |-> StringValue(<<97, 58, 98, 58, 48, 58, 48, 49>>)]>>}

(***************************************************************************)
(* The propagator in use                                                   *)
(***************************************************************************)

VARIABLES
    jaegerTraceHeader,  \* this._jaegerTraceHeader
    pc,                 \* "start", "injected", "received", "extracted"
    source,             \* where the carrier came from: "none", "inject", "wire"
    injectContext,      \* the context inject was called with
    calls,              \* the setter calls inject made, in order
    injectThrew,        \* whether inject threw
    carrier,            \* the carrier
    extractContext,     \* the context extract was called with
    result              \* extract's outcome: [thrown, ctx, spanContext]

vars == <<jaegerTraceHeader, pc, source, injectContext, calls, injectThrew,
          carrier, extractContext, result>>

Init ==
    /\ jaegerTraceHeader \in {Constructor(c) : c \in CustomTraceHeaders}
    /\ pc = "start"
    /\ source = "none"
    /\ injectContext = ROOT_CONTEXT
    /\ calls = <<>>
    /\ injectThrew = FALSE
    /\ carrier = <<>>
    /\ extractContext = ROOT_CONTEXT
    /\ result = [thrown |-> FALSE, ctx |-> ROOT_CONTEXT, spanContext |-> NotDeserialized]

\* propagator.inject(context, {}, defaultTextMapSetter)
Inject(context) ==
    /\ pc = "start"
    /\ pc' = "injected"
    /\ source' = "inject"
    /\ injectContext' = context
    /\ calls' = JaegerInject(jaegerTraceHeader, context).calls
    /\ injectThrew' = JaegerInject(jaegerTraceHeader, context).thrown
    /\ carrier' = ApplyCalls(<<>>, JaegerInject(jaegerTraceHeader, context).calls)
    /\ UNCHANGED <<jaegerTraceHeader, extractContext, result>>

\* a carrier arrives from the wire
Receive(wire) ==
    /\ pc = "start"
    /\ pc' = "received"
    /\ source' = "wire"
    /\ carrier' = wire
    /\ UNCHANGED <<jaegerTraceHeader, injectContext, calls, injectThrew,
                   extractContext, result>>

\* propagator.extract(context, carrier, defaultTextMapGetter)
Extract(context) ==
    /\ pc \in {"injected", "received"}
    /\ pc' = "extracted"
    /\ extractContext' = context
    /\ result' = JaegerExtract(jaegerTraceHeader, context, carrier)
    /\ UNCHANGED <<jaegerTraceHeader, source, injectContext, calls, injectThrew, carrier>>

Next ==
    \/ pc = "start" /\ \E context \in InjectContexts : Inject(context)
    \/ pc = "start" /\ \E wire \in WireCarriers(jaegerTraceHeader) : Receive(wire)
    \/ pc # "start" /\ \E context \in ExtractContexts : Extract(context)

Spec == Init /\ [][Next]_vars
(***************************************************************************)
(* Properties                                                              *)
(***************************************************************************)

\* a string without ':' and without '%'
Plain(s) == \A i \in 1..Len(s) : s[i] # 58 /\ s[i] # 37

\* p is s left-padded with '0' to exactly 32 characters
IsZeroPadded32(p, s) ==
    /\ Len(p) = 32
    /\ Len(s) <= 32
    /\ \A i \in 1..(32 - Len(s)) : p[i] = 48
    /\ \A i \in 1..Len(s) : p[32 - Len(s) + i] = s[i]

\* extract has run on the carrier inject wrote
RoundTripDone == pc = "extracted" /\ source = "inject"

\* the case of C1: a span context within the claim's domain was injected
\* with tracing not suppressed and the carrier was extracted
PlainSpanRoundTrip ==
    /\ RoundTripDone
    /\ injectContext.hasSpan
    /\ injectContext.suppressed = FALSE
    /\ Len(injectContext.span.traceId) <= 32
    /\ injectContext.span.traceFlags \in {0, 1}
    /\ Plain(injectContext.span.traceId)
    /\ Plain(injectContext.span.spanId)

\* C1: a span context with a traceId of at most 32 characters, a spanId and
\* traceFlags 0 or 1, none with ':' or '%', injected with tracing not
\* suppressed and extracted again, comes back with the traceId left-padded
\* with '0' to 32 characters, the same spanId and traceFlags, and isRemote true.
C1_TraceContextRoundTrip ==
    PlainSpanRoundTrip =>
        /\ result.thrown = FALSE
        /\ result.ctx.hasSpan
        /\ IsZeroPadded32(result.ctx.span.traceId, injectContext.span.traceId)
        /\ (Len(injectContext.span.traceId) = 32 =>
                result.ctx.span.traceId = injectContext.span.traceId)
        /\ result.ctx.span.spanId = injectContext.span.spanId
        /\ result.ctx.span.traceFlags = injectContext.span.traceFlags
        /\ result.ctx.span.isRemote = TRUE

C1_Witness ==
    /\ PlainSpanRoundTrip
    /\ Len(injectContext.span.traceId) = 16
    /\ injectContext.span.traceFlags = 1
    /\ injectContext.span.isRemote = FALSE
    /\ result.ctx.hasSpan
    /\ Len(result.ctx.span.traceId) = 32

\* "uberctx-" followed by the key
UberctxHeader(key) == <<117, 98, 101, 114, 99, 116, 120, 45>> \o key

\* the setter was called for the trace header
TraceHeaderWritten == \E i \in 1..Len(calls) : calls[i].key = jaegerTraceHeader

\* the setter calls that follow the trace header's
BaggageCallsMade ==
    IF TraceHeaderWritten THEN Tail(calls) ELSE calls

\* one 'uberctx-<key>' call per baggage entry, in the baggage's order
OneCallPerEntry ==
    LET entries == IF injectContext.hasBaggage THEN injectContext.baggage ELSE <<>>
    IN  /\ Len(BaggageCallsMade) = Len(entries)
        /\ \A i \in 1..Len(entries) :
              BaggageCallsMade[i].key = UberctxHeader(entries[i].key)

C3_ExtractNeverThrows == pc = "extracted" => result.thrown = FALSE

\* the trace header value extract reads from the carrier
TraceHeaderRead == FirstOrValue(GetterGet(carrier, jaegerTraceHeader))

\* the trace header is a string that percent-decodes and splits on ':' into
\* exactly 4 fields
HasFourFields ==
    /\ TraceHeaderRead.kind = "string"
    /\ DecodeURIComponent(TraceHeaderRead.str).thrown = FALSE
    /\ Len(Split(DecodeURIComponent(TraceHeaderRead.str).str, 58)) = 4

\* the trace header is absent, or percent-decodes to something that does not
\* split into exactly 4 fields
HasNoSpanContext ==
    \/ TraceHeaderRead.kind # "string"
    \/ /\ DecodeURIComponent(TraceHeaderRead.str).thrown = FALSE
       /\ Len(Split(DecodeURIComponent(TraceHeaderRead.str).str, 58)) # 4

\* a baggage-prefixed header has a value
BaggageYieldsValue ==
    \E i \in 1..Len(BaggageValues(carrier)) :
        BaggageValues(carrier)[i].value.kind # "undefined"

ResultEntries == IF result.ctx.hasBaggage THEN result.ctx.baggage ELSE <<>>

SameEntries(a, b) ==
    /\ Len(a) = Len(b)
    /\ \A i \in 1..Len(a) : \E j \in 1..Len(b) : a[i] = b[j]
    /\ \A j \in 1..Len(b) : \E i \in 1..Len(a) : a[i] = b[j]

\* baggage was injected and the carrier extracted into a context without one
BaggageRoundTrip ==
    /\ RoundTripDone
    /\ injectContext.hasBaggage
    /\ extractContext.hasBaggage = FALSE

\* inject wrote one header per entry, holding the percent-encoded value
EncodedHeadersWritten ==
    /\ OneCallPerEntry
    /\ \A i \in 1..Len(injectContext.baggage) :
          BaggageCallsMade[i].value = EncodeURIComponent(injectContext.baggage[i].value).str

\* a key the baggage pattern finds again: not empty, not starting with a line
\* terminator
KeySurvives(key) == Len(key) >= 1 /\ key[1] \notin {10, 13, 8232, 8233}

SpanContextAttached ==
    /\ result.ctx.hasSpan
    /\ result.ctx.span.isRemote
    /\ result.ctx.span # extractContext.span

\* C6: extract returns a context; it has a span context attached exactly when
\* the trace header is present and its decoded value has 4 fields, otherwise
\* the span context is the input context's; and the baggage headers are
\* processed either way.
C6_FieldCountOnlyRejection ==
    pc = "extracted" =>
        /\ result.thrown = FALSE
        /\ (SpanContextAttached <=> HasFourFields)
        /\ (~HasFourFields =>
                /\ result.ctx.hasSpan = extractContext.hasSpan
                /\ result.ctx.span = extractContext.span)
        /\ (BaggageValues(carrier) # <<>> => result.ctx.hasBaggage)

\* two hex digits, of either case
IsTwoHexDigits(s) ==
    /\ Len(s) = 2
    /\ \A i \in 1..2 : s[i] \in (48..57) \cup (65..70) \cup (97..102)

\* the flags field of a 4-field trace header
FlagsField == Split(DecodeURIComponent(TraceHeaderRead.str).str, 58)[4]

\* C7: a trace header of 4 fields decodes to a span context, whatever its
\* flags field; the traceFlags are 0 or 1, and 1 when the flags field is not
\* two hex digits.
C7_FlagsTolerance ==
    (pc = "extracted" /\ HasFourFields) =>
        /\ result.spanContext.thrown = FALSE
        /\ result.spanContext.null = FALSE
        /\ result.spanContext.span.traceFlags \in {0, 1}
        /\ (~IsTwoHexDigits(FlagsField) => result.spanContext.span.traceFlags = 1)
        /\ (result.thrown = FALSE =>
                /\ result.ctx.hasSpan
                /\ result.ctx.span = result.spanContext.span)

C7_Witness ==
    /\ pc = "extracted"
    /\ HasFourFields
    /\ FlagsField = <<122, 122>>
    /\ result.thrown = FALSE
    /\ result.ctx.hasSpan
    /\ result.ctx.span.traceFlags = 1

\* two lowercase hex digits
IsTwoLowerHexDigits(s) ==
    /\ Len(s) = 2
    /\ \A i \in 1..2 : s[i] \in (48..57) \cup (97..102)

\* C8: the trace header inject writes for traceFlags 0..255 has '0' as its
\* third field and exactly two lowercase hex digits as its fourth.
C8_TwoHexDigitFlags ==
    (source = "inject" /\ TraceHeaderWritten
     /\ injectContext.span.traceFlags \in 0..255
     /\ Plain(injectContext.span.traceId) /\ Plain(injectContext.span.spanId)) =>
        /\ Len(Split(calls[1].value, 58)) = 4
        /\ Split(calls[1].value, 58)[3] = <<48>>
        /\ IsTwoLowerHexDigits(Split(calls[1].value, 58)[4])

\* the baggage headers that have a value, {key, value}, in the carrier's order
ValuedHeaders ==
    SelectSeq(BaggageValues(carrier), LAMBDA e : e.value.kind # "undefined")

\* the last valued header naming key
LastValued(key) ==
    ValuedHeaders[CHOOSE i \in 1..Len(ValuedHeaders) :
        /\ ValuedHeaders[i].key = key
        /\ \A j \in (i + 1)..Len(ValuedHeaders) : ValuedHeaders[j].key # key]

NamedByHeader(key) == \E i \in 1..Len(ValuedHeaders) : ValuedHeaders[i].key = key

\* the entries of the baggage extract was given (none without a baggage)
InputEntries == IF extractContext.hasBaggage THEN extractContext.baggage ELSE <<>>

\* the returned baggage holds the decoded last value of every key a valued
\* header names, the input's other entries, and nothing else
MergedBaggage ==
    /\ \A i \in 1..Len(ValuedHeaders) :
          \E j \in 1..Len(ResultEntries) :
              /\ ResultEntries[j].key = ValuedHeaders[i].key
              /\ DecodeURIComponent(LastValued(ValuedHeaders[i].key).value.str).thrown = FALSE
              /\ ResultEntries[j].value =
                     DecodeURIComponent(LastValued(ValuedHeaders[i].key).value.str).str
    /\ \A i \in 1..Len(InputEntries) :
          NamedByHeader(InputEntries[i].key) \/
          \E j \in 1..Len(ResultEntries) : ResultEntries[j] = InputEntries[i]
    /\ \A j \in 1..Len(ResultEntries) :
          NamedByHeader(ResultEntries[j].key) \/
          \E i \in 1..Len(InputEntries) : InputEntries[i].key = ResultEntries[j].key
    /\ \A i, j \in 1..Len(ResultEntries) :
          ResultEntries[i].key = ResultEntries[j].key => i = j

\* C9: when a baggage-prefixed header has a value, extract returns a context
\* whose baggage is the input's merged with the decoded header values, the
\* last header of a key winning.
C9_BaggageMerge ==
    (pc = "extracted" /\ BaggageYieldsValue) =>
        /\ result.thrown = FALSE
        /\ result.ctx.hasBaggage
        /\ MergedBaggage

\* C10: a span context with traceFlags 0..255, injected with tracing not
\* suppressed and extracted again, comes back with traceFlags equal to the
\* sampled bit of the original.
C10_SampledBitSurvives ==
    (RoundTripDone /\ injectContext.hasSpan /\ injectContext.suppressed = FALSE
     /\ injectContext.span.traceFlags \in 0..255
     /\ Plain(injectContext.span.traceId) /\ Plain(injectContext.span.spanId)) =>
        /\ result.thrown = FALSE
        /\ result.ctx.hasSpan
        /\ result.ctx.span.traceFlags = injectContext.span.traceFlags % 2
====
